---------------------------- MODULE Spec2Model ----------------------------
(***************************************************************************)
(* Markdown -> Telegram HTML renderer (TelegramRenderer, markdownToTelegram)*)
(* and the message chunker (formatMarkdownChunks) of src/utils/markdown.ts. *)
(*                                                                         *)
(* A JavaScript string is a sequence of one-character strings (one per     *)
(* UTF-16 code unit), so that length, slice, split, trim and replace are   *)
(* computed the way the code computes them.  The markdown parser (marked)  *)
(* is an external library: its token tree for an input, or the fact that   *)
(* it throws, is an input of the model.                                    *)
(***************************************************************************)
EXTENDS Integers, Sequences, FiniteSets, TLC

(***************************************************************************)
(* Bounds of the model.                                                    *)
(***************************************************************************)
\* maxLength ranges over 1..MaxMaxLength
MaxMaxLength == 14
\* raw input texts of the fallback path have at most MaxTextLen characters
MaxTextLen == 5

(***************************************************************************)
(* Characters and strings.                                                 *)
(***************************************************************************)
NL == "\n"
SP == " "
\* the code units String.prototype.trim removes (those the model's inputs use)
Whitespace == {SP, NL}

\* the two UTF-16 code units of the checked glyph, U+2611 U+FE0F
CheckedGlyph == <<"U+2611", "U+FE0F">>
\* U+2B1C
UncheckedGlyph == <<"U+2B1C">>
\* U+2022
BulletGlyph == <<"U+2022">>
\* U+2500, ten times, between newlines (hr)
HrLine == <<NL>> \o [i \in 1..10 |-> "U+2500"] \o <<NL, NL>>

MinOf(S) == CHOOSE x \in S : \A y \in S : x <= y
MaxOf(S) == CHOOSE x \in S : \A y \in S : x >= y

\* s.slice(from) / s.slice(0, to), 0-based as in JavaScript
SliceFrom(s, from) == SubSeq(s, from + 1, Len(s))
SliceTo(s, to) == SubSeq(s, 1, IF to < Len(s) THEN to ELSE Len(s))

\* String.prototype.trim
Trim(s) ==
  LET keep == {i \in 1..Len(s) : s[i] \notin Whitespace}
  IN  IF keep = {} THEN <<>> ELSE SubSeq(s, MinOf(keep), MaxOf(keep))

\* seqs.join(sep) of the elements at positions lo..hi (by halves, which keeps
\* the evaluation shallow)
RECURSIVE JoinRange(_, _, _, _)
JoinRange(seqs, sep, lo, hi) ==
  IF lo > hi THEN <<>>
  ELSE IF lo = hi THEN seqs[lo]
  ELSE LET mid == (lo + hi) \div 2
       IN  JoinRange(seqs, sep, lo, mid) \o sep \o JoinRange(seqs, sep, mid + 1, hi)

\* seqs.join(sep)
Join(seqs, sep) == JoinRange(seqs, sep, 1, Len(seqs))

\* the concatenation of a sequence of strings
Concat(seqs) == Join(seqs, <<>>)

\* s.split(sep) for a non-empty separator: leftmost, non-overlapping matches
RECURSIVE Split(_, _)
Split(s, sep) ==
  LET n == Len(sep)
      hits == {i \in 1..(Len(s) - n + 1) : SubSeq(s, i, i + n - 1) = sep}
  IN  IF hits = {} THEN <<s>>
      ELSE LET i == MinOf(hits)
           IN  <<SubSeq(s, 1, i - 1)>> \o Split(SubSeq(s, i + n, Len(s)), sep)

\* s.replace(/\n{3,}/g, "\n\n"): of a run of newlines the first two are kept
CollapseNewlines(s) ==
  LET drop(i) == /\ i >= 3
                 /\ s[i] = NL /\ s[i - 1] = NL /\ s[i - 2] = NL
  IN  Concat([i \in 1..Len(s) |-> IF drop(i) THEN <<>> ELSE <<s[i]>>])

\* s.replace(/\n+/g, " "): a run of newlines becomes one space
NewlinesToSpace(s) ==
  LET piece(i) == IF s[i] # NL THEN <<s[i]>>
                  ELSE IF i > 1 /\ s[i - 1] = NL THEN <<>>
                  ELSE <<SP>>
  IN  Concat([i \in 1..Len(s) |-> piece(i)])

\* s.replace(/<[^>]+>/g, ""): from each "<" followed by at least one character
\* other than ">" up to and including the next ">"
RECURSIVE StripTags(_)
StripTags(s) ==
  LET closes(i) == {j \in (i + 2)..Len(s) : s[j] = ">"}
      opens == {i \in 1..Len(s) :
                  /\ s[i] = "<"
                  /\ i + 1 <= Len(s) /\ s[i + 1] # ">"
                  /\ closes(i) # {}}
  IN  IF opens = {} THEN s
      ELSE LET i == MinOf(opens)
               j == MinOf(closes(i))
           IN  SubSeq(s, 1, i - 1) \o StripTags(SubSeq(s, j + 1, Len(s)))

\* the decimal digits of a natural number (template literal `${n}`)
RECURSIVE Digits(_)
Digits(n) ==
  LET d == <<"0", "1", "2", "3", "4", "5", "6", "7", "8", "9">>
  IN  IF n < 10 THEN <<d[n + 1]>> ELSE Digits(n \div 10) \o <<d[(n % 10) + 1]>>

(***************************************************************************)
(* TelegramRenderer.                                                       *)
(***************************************************************************)
\* htmlEscapeMap
EscapeChar(c) ==
  CASE c = "&"  -> <<"&", "a", "m", "p", ";">>
    [] c = "<"  -> <<"&", "l", "t", ";">>
    [] c = ">"  -> <<"&", "g", "t", ";">>
    [] c = "\"" -> <<"&", "q", "u", "o", "t", ";">>
    [] OTHER    -> <<c>>

\* escapeHtml: text.replace(/[&<>"]/g, ...)
EscapeHtml(text) == Concat([i \in 1..Len(text) |-> EscapeChar(text[i])])

Tag(name) == <<"<">> \o name \o <<">">>
EndTag(name) == <<"<", "/">> \o name \o <<">">>
TagB == <<"b">>
TagI == <<"i">>
TagS == <<"s">>
TagA == <<"a">>
TagCode == <<"c", "o", "d", "e">>
TagPre == <<"p", "r", "e">>
TagBlockquote == <<"b", "l", "o", "c", "k", "q", "u", "o", "t", "e">>
ImageWord == <<"I", "m", "a", "g", "e">>

\* checkbox()
Checkbox(token) ==
  IF token.checked THEN CheckedGlyph \o <<SP>> ELSE UncheckedGlyph \o <<SP>>

\* code()
Code(token) ==
  Tag(TagPre) \o EscapeHtml(Trim(token.text)) \o EndTag(TagPre) \o <<NL, NL>>

\* codespan()
Codespan(token) == Tag(TagCode) \o EscapeHtml(token.text) \o EndTag(TagCode)

\* the opening tag of link() and image()
AnchorOpen(href) ==
  <<"<", "a", SP, "h", "r", "e", "f", "=", "\"">> \o EscapeHtml(href) \o <<"\"", ">">>

\* image()
Image(token) ==
  AnchorOpen(token.href)
    \o (IF token.text # <<>> THEN token.text ELSE ImageWord)
    \o EndTag(TagA)

\* html()
Html(token) == EscapeHtml(token.text)

\* text()
Text(token) == EscapeHtml(token.text)

\* const startNum = typeof start === "number" ? start : 1, start defaulting to 1
StartNum(token) == IF token.start.kind = "number" THEN token.start.num ELSE 1

\* the marker of the item at position index (0-based) of list()
Marker(token, item, index) ==
  IF item.task
    THEN (IF item.checked THEN CheckedGlyph ELSE UncheckedGlyph)
    ELSE IF token.ordered
      THEN Digits(StartNum(token) + index) \o <<".">>
      ELSE BulletGlyph

\* mutant of SeparatorRow: one separator whatever the number of columns
SeparatorRow_Single(header) == <<"|", SP, "-", "-", "-", SP, "|">>

\* the second line of table(): header.map(() => "---").join(" | ")
SeparatorRow(header) ==
  <<"|", SP>> \o Join([i \in 1..Len(header) |-> <<"-", "-", "-">>], <<SP, "|", SP>>)
    \o <<SP, "|">>

\* a line of table() from the plain text of its cells
TableRow(cells) == <<"|", SP>> \o Join(cells, <<SP, "|", SP>>) \o <<SP, "|">>

\* plainFromCell, applied to the rendered inline content of a cell
PlainFromRendered(rendered) == Trim(NewlinesToSpace(StripTags(rendered)))

RECURSIVE Parse(_), ParseInline(_), Render(_)

\* this.parser.parseInline(tokens): the renderer's rule of each token, in order
ParseInline(tokens) == Concat([i \in 1..Len(tokens) |-> Render(tokens[i])])

\* this.parser.parse(tokens): the same dispatch over block tokens; consecutive
\* text tokens are joined by a newline
Parse(tokens) ==
  Concat([i \in 1..Len(tokens) |->
    IF i > 1 /\ tokens[i].type = "text" /\ tokens[i - 1].type = "text"
      THEN <<NL>> \o Render(tokens[i])
      ELSE Render(tokens[i])])

\* list()
List(token) ==
  LET line(i) == Marker(token, token.items[i], i - 1) \o <<SP>>
                   \o Trim(Parse(token.items[i].tokens))
  IN  Join([i \in 1..Len(token.items) |-> line(i)], <<NL>>) \o <<NL, NL>>

\* table()
Table(token) ==
  LET plainFromCell(cell) == PlainFromRendered(ParseInline(cell.tokens))
      row(cells) == TableRow([i \in 1..Len(cells) |-> plainFromCell(cells[i])])
      head == IF Len(token.header) > 0
                THEN <<row(token.header), SeparatorRow(token.header)>>
                ELSE <<>>
      lines == head \o [r \in 1..Len(token.rows) |-> row(token.rows[r])]
  IN  IF Len(lines) = 0 THEN <<>>
      ELSE Tag(TagPre) \o EscapeHtml(Join(lines, <<NL>>)) \o EndTag(TagPre)
             \o <<NL, NL>>

\* the rule of TelegramRenderer the parser calls for a token
Render(token) ==
  CASE token.type = "heading"    -> ParseInline(token.tokens) \o <<NL, NL>>
    [] token.type = "paragraph"  -> ParseInline(token.tokens) \o <<NL, NL>>
    [] token.type = "list"       -> List(token)
    [] token.type = "checkbox"   -> Checkbox(token)
    [] token.type = "code"       -> Code(token)
    [] token.type = "codespan"   -> Codespan(token)
    [] token.type = "em"         -> Tag(TagI) \o ParseInline(token.tokens) \o EndTag(TagI)
    [] token.type = "strong"     -> Tag(TagB) \o ParseInline(token.tokens) \o EndTag(TagB)
    [] token.type = "del"        -> Tag(TagS) \o ParseInline(token.tokens) \o EndTag(TagS)
    [] token.type = "link"       ->
         AnchorOpen(token.href) \o ParseInline(token.tokens) \o EndTag(TagA)
    [] token.type = "image"      -> Image(token)
    [] token.type = "blockquote" ->
         Tag(TagBlockquote) \o Trim(Parse(token.tokens)) \o EndTag(TagBlockquote)
           \o <<NL, NL>>
    [] token.type = "hr"         -> HrLine
    [] token.type = "br"         -> <<NL>>
    [] token.type = "table"      -> Table(token)
    [] token.type = "html"       -> Html(token)
    [] token.type = "text"       -> Text(token)
    [] token.type = "escape"     -> Text(token)

(***************************************************************************)
(* markdownToTelegram.                                                     *)
(***************************************************************************)
\* !markdown || markdown.trim().length === 0
IsBlank(s) == Len(Trim(s)) = 0

\* return result.replace(/\n{3,}/g, "\n\n").trim()
CleanUp(result) == Trim(CollapseNewlines(result))

\* mutant of CatchFallback: the catch block lets the error out
CatchFallback_Rethrows(markdown) == [threw |-> TRUE, value |-> <<>>]

\* the catch block: the outcome of the call once marked.parse has thrown
CatchFallback(markdown) == [threw |-> FALSE, value |-> EscapeHtml(markdown)]

(***************************************************************************)
(* formatMarkdownChunks: the tests of its loops.                           *)
(***************************************************************************)
\* (currentChunk + paragraph).length > maxLength - 2
ParagraphOverflows(current, paragraph, max) == Len(current \o paragraph) > max - 2

\* (tempChunk + line).length > maxLength - 1
LineOverflows(temp, line, max) == Len(temp \o line) > max - 1

\* mutant of TooLong: the comparison is off by one
TooLong_OffByOne(s, max) == Len(s) > max - 1

\* currentChunk.length > maxLength, tempChunk.length > maxLength
TooLong(s, max) == Len(s) > max

\* a += (a ? sep : "") + b
AppendWith(a, sep, b) == a \o (IF a # <<>> THEN sep ELSE <<>>) \o b

\* mutant of AfterLines: what is left of the lines is dropped
AfterLines_Dropped(temp) == <<>>

\* after the loop over the lines: currentChunk = tempChunk, or "" when empty
AfterLines(temp) == IF temp # <<>> THEN temp ELSE <<>>

(***************************************************************************)
(* State.                                                                  *)
(***************************************************************************)
VARIABLES
  text,          \* the argument text / markdown
  parsed,        \* what marked does with it: [throws, tokens]
  maxLength,     \* the argument maxLength
  pc,            \* the position of the call
  out,           \* the parser's output so far (marked.parse)
  tokenIdx,      \* the number of top-level tokens rendered
  formatted,     \* const formatted = markdownToTelegram(text)
  paragraphs,    \* formatted.split("\n\n")
  paraIdx,       \* the number of paragraphs consumed
  currentChunk,
  lines,         \* currentChunk.split("\n")
  lineIdx,       \* the number of lines consumed
  tempChunk,
  chunks,        \* the array returned
  currentStart,  \* history: the offset in formatted where currentChunk begins
  tempStart,     \* history: the offset in formatted where tempChunk begins
  spans          \* history: for each chunk, the offsets [from, to) it was cut at

vars == <<text, parsed, maxLength, pc, out, tokenIdx, formatted, paragraphs,
          paraIdx, currentChunk, lines, lineIdx, tempChunk, chunks,
          currentStart, tempStart, spans>>

\* the offset of part i (1-based) of parts, which a separator of sepLen
\* characters joins, the first part beginning at offset base
RECURSIVE PartOffset(_, _, _, _)
PartOffset(parts, sepLen, base, i) ==
  IF i = 1 THEN base
  ELSE PartOffset(parts, sepLen, base, i - 1) + Len(parts[i - 1]) + sepLen

\* the offset in formatted of paragraph i (1-based) of paragraphs
ParagraphOffset(i) == PartOffset(paragraphs, 2, 0, i)

\* the offset in formatted of line j (1-based) of lines, lines being those of
\* paragraph paraIdx
LineOffset(j) == PartOffset(lines, 1, ParagraphOffset(paraIdx), j)

Span(from, s) == [from |-> from, to |-> from + Len(s)]

(***************************************************************************)
(* Inputs: a markdown text with the token tree marked builds for it, or a  *)
(* text on which marked throws.                                            *)
(***************************************************************************)
TextTok(s) == [type |-> "text", text |-> s]
Paragraph(toks) == [type |-> "paragraph", tokens |-> toks]
CodeTok(s) == [type |-> "code", text |-> s]
Doc(src, toks) == [src |-> src, throws |-> FALSE, tokens |-> toks]
Throwing(src) == [src |-> src, throws |-> TRUE, tokens |-> <<>>]

\* every string of at most n characters of the alphabet
Strings(alphabet, n) == UNION {[1..k -> alphabet] : k \in 0..n}

\* three backticks (U+0060)
Fence == <<"U+0060", "U+0060", "U+0060">>

\* blank texts
BlankInputs == {Doc(s, <<>>) : s \in {<<>>, <<SP>>, <<NL>>, <<SP, NL>>}}

\* texts on which marked.parse throws
ThrowInputs ==
  {Throwing(s) : s \in {t \in Strings({"a", SP, NL}, MaxTextLen) : ~IsBlank(t)}}
    \cup {Throwing(s) : s \in {<<"<">>, <<"a", "&", "\"">>, <<">", NL, NL, "a">>}}

\* fenced code blocks: the token's text is the text between the fences
CodeInputs ==
  {Doc(Fence \o <<NL>> \o s \o <<NL>> \o Fence, <<CodeTok(s)>>) :
     s \in {t \in Strings({"a", SP, NL}, MaxTextLen) : ~IsBlank(t)}}

\* one to three paragraphs of plain words, separated by blank lines
ParagraphTexts ==
  {<<"a", "a">>, <<"b", "b", "b">>, <<"c", SP, "d">>, <<"e", NL, "f">>,
   <<"g", "g", NL, "h">>}
ParagraphInputs ==
  {Doc(Join(ps, <<NL, NL>>), [i \in 1..Len(ps) |-> Paragraph(<<TextTok(ps[i])>>)]) :
     ps \in UNION {[1..k -> ParagraphTexts] : k \in 1..3}}

\* inline and block constructs, each with the markdown text it is parsed from
StrongTok(toks) == [type |-> "strong", tokens |-> toks]
EmTok(toks) == [type |-> "em", tokens |-> toks]
DelTok(toks) == [type |-> "del", tokens |-> toks]
CodespanTok(s) == [type |-> "codespan", text |-> s]
LinkTok(href, toks) == [type |-> "link", href |-> href, tokens |-> toks]
ImageTok(href, alt) == [type |-> "image", href |-> href, text |-> alt]
HtmlTok(s) == [type |-> "html", text |-> s]
EscapeTok(s) == [type |-> "escape", text |-> s]
BrTok == [type |-> "br"]
HrTok == [type |-> "hr"]
HeadingTok(toks) == [type |-> "heading", tokens |-> toks]
BlockquoteTok(toks) == [type |-> "blockquote", tokens |-> toks]
CheckboxTok(checked) == [type |-> "checkbox", checked |-> checked]
ItemTok(task, checked, toks) == [task |-> task, checked |-> checked, tokens |-> toks]
ListTok(ordered, start, items) ==
  [type |-> "list", ordered |-> ordered, start |-> start, items |-> items]
Cell(toks) == [tokens |-> toks]
TableTok(header, rows) == [type |-> "table", header |-> header, rows |-> rows]

\* the values of a list token's start: a number, "" (unordered) or undefined
NumberStart(n) == [kind |-> "number", num |-> n]
StringStart == [kind |-> "string", num |-> 0]
UndefinedStart == [kind |-> "undefined", num |-> 0]

InlineInputs ==
  { Doc(<<"*", "*", "a", "*", "*">>, <<Paragraph(<<StrongTok(<<TextTok(<<"a">>)>>)>>)>>),
    Doc(<<"*", "a", NL, "a", "*">>, <<Paragraph(<<EmTok(<<TextTok(<<"a", NL, "a">>)>>)>>)>>),
    Doc(<<"~", "~", "a", "~", "~", SP, "<">>,
        <<Paragraph(<<DelTok(<<TextTok(<<"a">>)>>), TextTok(<<SP, "<">>)>>)>>),
    Doc(<<"U+0060", "a", "<", "U+0060">>, <<Paragraph(<<CodespanTok(<<"a", "<">>)>>)>>),
    Doc(<<"[", "a", "&", "]", "(", "u", "&", "v", ")">>,
        <<Paragraph(<<LinkTok(<<"u", "&", "v">>, <<TextTok(<<"a", "&">>)>>)>>)>>),
    Doc(<<"!", "[", "a", "]", "(", "u", "\"", ")">>,
        <<Paragraph(<<ImageTok(<<"u", "\"">>, <<"a">>)>>)>>),
    Doc(<<"!", "[", "<", "]", "(", "u", ")">>,
        <<Paragraph(<<ImageTok(<<"u">>, <<"<">>)>>)>>),
    Doc(<<"!", "[", "]", "(", "u", ")">>, <<Paragraph(<<ImageTok(<<"u">>, <<>>)>>)>>),
    Doc(<<"a", SP, SP, NL, "b">>,
        <<Paragraph(<<TextTok(<<"a">>), BrTok, TextTok(<<"b">>)>>)>>),
    Doc(<<"\\", "<", "a", ">">>,
        <<Paragraph(<<EscapeTok(<<"<">>), TextTok(<<"a", ">">>)>>)>>),
    Doc(<<"a", "<", "b", ">", "&">>,
        <<Paragraph(<<TextTok(<<"a">>), HtmlTok(<<"<", "b", ">">>), TextTok(<<"&">>)>>)>>),
    Doc(<<"<", "d", "i", "v", ">">>, <<HtmlTok(<<"<", "d", "i", "v", ">">>)>>),
    Doc(<<"#", SP, "a", "\"">>, <<HeadingTok(<<TextTok(<<"a", "\"">>)>>)>>),
    Doc(<<"a", NL, NL, "-", "-", "-", NL, NL, "a">>,
        <<Paragraph(<<TextTok(<<"a">>)>>), HrTok, Paragraph(<<TextTok(<<"a">>)>>)>>),
    Doc(<<">", SP, "a", NL, ">", NL, ">", SP, "b">>,
        <<BlockquoteTok(<<Paragraph(<<TextTok(<<"a">>)>>),
                          Paragraph(<<TextTok(<<"b">>)>>)>>)>>),
    Doc(<<">", SP, "a", "<">>, <<BlockquoteTok(<<Paragraph(<<TextTok(<<"a", "<">>)>>)>>)>>) }

\* lists: bullet lists, ordered lists from a start number, task lists.  A task
\* item's tokens open with a checkbox token when the parser emits one
\* (marked 17), and do not otherwise
ItemWords == {<<"a">>, <<"a", "<">>}
ItemShapes ==
  {[task |-> FALSE, checked |-> FALSE, box |-> FALSE]}
    \cup {[task |-> TRUE, checked |-> c, box |-> b] : c \in BOOLEAN, b \in BOOLEAN}
ItemOf(shape, word) ==
  ItemTok(shape.task, shape.checked,
          (IF shape.box THEN <<CheckboxTok(shape.checked)>> ELSE <<>>)
            \o <<TextTok(word)>>)
ItemSrc(shape, word, bullet) ==
  bullet \o <<SP>>
    \o (IF ~shape.task THEN <<>>
        ELSE IF shape.checked THEN <<"[", "x", "]", SP>> ELSE <<"[", SP, "]", SP>>)
    \o word
ListStarts == {1, 3, 9}
ListInputs ==
  UNION {
    { Doc(Join([i \in 1..n |-> ItemSrc(shapes[i], <<"a">>, <<"-">>)], <<NL>>),
          <<ListTok(FALSE, StringStart,
                    [i \in 1..n |-> ItemOf(shapes[i], <<"a">>)])>>) :
        shapes \in [1..n -> ItemShapes] }
    \cup
    { Doc(Join([i \in 1..n |->
                  ItemSrc(shapes[i], w, Digits(st + i - 1) \o <<".">>)], <<NL>>),
          <<ListTok(TRUE, NumberStart(st),
                    [i \in 1..n |-> ItemOf(shapes[i], w)])>>) :
        shapes \in [1..n -> {sh \in ItemShapes : ~sh.task \/ sh.box}],
        st \in ListStarts, w \in ItemWords }
    : n \in 1..2 }

\* tables of k header cells and r body rows
CellTokens ==
  {<<TextTok(<<"a">>)>>, <<StrongTok(<<TextTok(<<"b">>)>>)>>,
   <<CodespanTok(<<"<">>)>>, <<TextTok(<<"&">>)>>}
CellSrc(toks) ==
  IF toks = <<TextTok(<<"a">>)>> THEN <<"a">>
  ELSE IF toks = <<TextTok(<<"&">>)>> THEN <<"&">>
  ELSE IF toks = <<StrongTok(<<TextTok(<<"b">>)>>)>> THEN <<"*", "*", "b", "*", "*">>
  ELSE <<"U+0060", "<", "U+0060">>
RowSrc(cells) ==
  <<"|", SP>> \o Join([i \in 1..Len(cells) |-> CellSrc(cells[i])], <<SP, "|", SP>>)
    \o <<SP, "|">>
TableInputs ==
  UNION {
    { Doc(Join(<<RowSrc(h), SeparatorRow(h)>> \o [i \in 1..r |-> RowSrc(h)], <<NL>>),
          <<TableTok([i \in 1..k |-> Cell(h[i])],
                     [i \in 1..r |-> [c \in 1..k |-> Cell(h[c])]])>>) :
        h \in [1..k -> CellTokens] }
    : k \in 1..2, r \in 0..2 }

\* trees built by hand, which no markdown text yields: the text stands for the
\* caller's input.  A table of no header and no rows; an ordered list whose
\* start is not a number
HandBuiltInputs ==
  { Doc(<<"a">>, <<TableTok(<<>>, <<>>)>>),
    Doc(<<"a">>, <<TableTok(<<Cell(<<TextTok(<<"a">>), BrTok, TextTok(<<"b">>)>>)>>,
                            <<<<Cell(<<TextTok(<<"c">>)>>)>>>>)>>),
    Doc(<<"a">>, <<ListTok(TRUE, UndefinedStart,
                           <<ItemTok(FALSE, FALSE, <<TextTok(<<"a">>)>>),
                             ItemTok(FALSE, FALSE, <<TextTok(<<"b">>)>>)>>)>>) }

\* a link reference definition alone: marked yields only a def token, for
\* which nothing is rendered, so the parser's output is the empty string
DefinitionInputs == {Doc(<<"[", "a", "]", ":", SP, "u">>, <<>>)}

Inputs ==
  BlankInputs \cup ThrowInputs \cup CodeInputs \cup ParagraphInputs
    \cup InlineInputs \cup ListInputs \cup TableInputs \cup HandBuiltInputs
    \cup DefinitionInputs

Init ==
  /\ \E d \in Inputs :
       /\ text = d.src
       /\ parsed = [throws |-> d.throws, tokens |-> d.tokens]
  /\ maxLength \in 1..MaxMaxLength
  /\ pc = "start"
  /\ out = <<>>
  /\ tokenIdx = 0
  /\ formatted = <<>>
  /\ paragraphs = <<>>
  /\ paraIdx = 0
  /\ currentChunk = <<>>
  /\ lines = <<>>
  /\ lineIdx = 0
  /\ tempChunk = <<>>
  /\ chunks = <<>>
  /\ currentStart = 0
  /\ tempStart = 0
  /\ spans = <<>>

(***************************************************************************)
(* Actions.                                                                *)
(***************************************************************************)
\* formatMarkdownChunks, lines 180-182
ReturnEmpty ==
  /\ pc = "start"
  /\ IsBlank(text)
  /\ chunks' = <<>>
  /\ pc' = "done"
  /\ UNCHANGED <<text, parsed, maxLength, out, tokenIdx, formatted, paragraphs,
                 paraIdx, currentChunk, lines, lineIdx, tempChunk,
                 currentStart, tempStart, spans>>

\* line 184 and markdownToTelegram lines 150-155: the text is not blank, so
\* marked.parse is called
CallParser ==
  /\ pc = "start"
  /\ ~IsBlank(text)
  /\ pc' = "parse"
  /\ UNCHANGED <<text, parsed, maxLength, out, tokenIdx, formatted, paragraphs,
                 paraIdx, currentChunk, lines, lineIdx, tempChunk, chunks,
                 currentStart, tempStart, spans>>

\* marked.parse throws: lines 158-168
ParserThrows ==
  /\ pc = "parse"
  /\ parsed.throws
  /\ LET r == CatchFallback(text)
     IN  IF r.threw
           THEN pc' = "raised" /\ UNCHANGED formatted
           ELSE pc' = "converted" /\ formatted' = r.value
  /\ UNCHANGED <<text, parsed, maxLength, out, tokenIdx, paragraphs,
                 paraIdx, currentChunk, lines, lineIdx, tempChunk, chunks,
                 currentStart, tempStart, spans>>

\* marked.parse renders the next top-level token with the renderer
RenderToken ==
  /\ pc = "parse"
  /\ ~parsed.throws
  /\ tokenIdx < Len(parsed.tokens)
  /\ out' = out \o Render(parsed.tokens[tokenIdx + 1])
  /\ tokenIdx' = tokenIdx + 1
  /\ UNCHANGED <<text, parsed, maxLength, pc, formatted, paragraphs,
                 paraIdx, currentChunk, lines, lineIdx, tempChunk, chunks,
                 currentStart, tempStart, spans>>

\* line 157
ReturnResult ==
  /\ pc = "parse"
  /\ ~parsed.throws
  /\ tokenIdx = Len(parsed.tokens)
  /\ formatted' = CleanUp(out)
  /\ pc' = "converted"
  /\ UNCHANGED <<text, parsed, maxLength, out, tokenIdx, paragraphs,
                 paraIdx, currentChunk, lines, lineIdx, tempChunk, chunks,
                 currentStart, tempStart, spans>>

\* lines 186-188
ReturnSingle ==
  /\ pc = "converted"
  /\ Len(formatted) <= maxLength
  /\ chunks' = <<formatted>>
  /\ spans' = <<Span(0, formatted)>>
  /\ pc' = "done"
  /\ UNCHANGED <<text, parsed, maxLength, out, tokenIdx, formatted, paragraphs,
                 paraIdx, currentChunk, lines, lineIdx, tempChunk,
                 currentStart, tempStart>>

\* lines 190-192
SplitParagraphs ==
  /\ pc = "converted"
  /\ ~(Len(formatted) <= maxLength)
  /\ paragraphs' = Split(formatted, <<NL, NL>>)
  /\ paraIdx' = 0
  /\ currentChunk' = <<>>
  /\ chunks' = <<>>
  /\ pc' = "paragraphs"
  /\ UNCHANGED <<text, parsed, maxLength, out, tokenIdx, formatted,
                 lines, lineIdx, tempChunk, currentStart, tempStart, spans>>

\* lines 195-203: the paragraph does not fit the current chunk
ParagraphFlush ==
  /\ pc = "paragraphs"
  /\ paraIdx < Len(paragraphs)
  /\ LET paragraph == paragraphs[paraIdx + 1]
     IN  /\ ParagraphOverflows(currentChunk, paragraph, maxLength)
         /\ IF currentChunk # <<>>
              THEN /\ chunks' = chunks \o <<Trim(currentChunk)>>
                   /\ spans' = spans \o <<Span(currentStart, currentChunk)>>
              ELSE UNCHANGED <<chunks, spans>>
         /\ currentChunk' = paragraph
         /\ currentStart' = ParagraphOffset(paraIdx + 1)
         /\ paraIdx' = paraIdx + 1
         /\ IF TooLong(paragraph, maxLength)
              THEN /\ lines' = Split(paragraph, <<NL>>)
                   /\ lineIdx' = 0
                   /\ tempChunk' = <<>>
                   /\ pc' = "lines"
              ELSE UNCHANGED <<lines, lineIdx, tempChunk, pc>>
  /\ UNCHANGED <<text, parsed, maxLength, out, tokenIdx, formatted, paragraphs,
                 tempStart>>

\* lines 224-226
ParagraphAppend ==
  /\ pc = "paragraphs"
  /\ paraIdx < Len(paragraphs)
  /\ LET paragraph == paragraphs[paraIdx + 1]
     IN  /\ ~ParagraphOverflows(currentChunk, paragraph, maxLength)
         /\ currentChunk' = AppendWith(currentChunk, <<NL, NL>>, paragraph)
         /\ currentStart' = IF currentChunk # <<>> THEN currentStart
                            ELSE ParagraphOffset(paraIdx + 1)
         /\ paraIdx' = paraIdx + 1
  /\ UNCHANGED <<text, parsed, maxLength, pc, out, tokenIdx, formatted,
                 paragraphs, lines, lineIdx, tempChunk, chunks, tempStart, spans>>

\* lines 205-213: the line does not fit tempChunk
LineFlush ==
  /\ pc = "lines"
  /\ lineIdx < Len(lines)
  /\ LET line == lines[lineIdx + 1]
         from == LineOffset(lineIdx + 1)
         flushed == IF tempChunk # <<>> THEN <<Trim(tempChunk)>> ELSE <<>>
         fspans == IF tempChunk # <<>> THEN <<Span(tempStart, tempChunk)>> ELSE <<>>
     IN  /\ LineOverflows(tempChunk, line, maxLength)
         /\ IF TooLong(line, maxLength)
              THEN /\ chunks' = chunks \o flushed \o <<SliceTo(line, maxLength)>>
                   /\ spans' = spans \o fspans
                                 \o <<Span(from, SliceTo(line, maxLength))>>
                   /\ tempChunk' = SliceFrom(line, maxLength)
                   /\ tempStart' = from + maxLength
              ELSE /\ chunks' = chunks \o flushed
                   /\ spans' = spans \o fspans
                   /\ tempChunk' = line
                   /\ tempStart' = from
         /\ lineIdx' = lineIdx + 1
  /\ UNCHANGED <<text, parsed, maxLength, pc, out, tokenIdx, formatted,
                 paragraphs, paraIdx, currentChunk, lines, currentStart>>

\* lines 214-216
LineAppend ==
  /\ pc = "lines"
  /\ lineIdx < Len(lines)
  /\ LET line == lines[lineIdx + 1]
     IN  /\ ~LineOverflows(tempChunk, line, maxLength)
         /\ tempChunk' = AppendWith(tempChunk, <<NL>>, line)
         /\ tempStart' = IF tempChunk # <<>> THEN tempStart
                         ELSE LineOffset(lineIdx + 1)
         /\ lineIdx' = lineIdx + 1
  /\ UNCHANGED <<text, parsed, maxLength, pc, out, tokenIdx, formatted,
                 paragraphs, paraIdx, currentChunk, lines, chunks,
                 currentStart, spans>>

\* lines 218-222
LinesDone ==
  /\ pc = "lines"
  /\ lineIdx = Len(lines)
  /\ currentChunk' = AfterLines(tempChunk)
  /\ currentStart' = tempStart
  /\ pc' = "paragraphs"
  /\ UNCHANGED <<text, parsed, maxLength, out, tokenIdx, formatted, paragraphs,
                 paraIdx, lines, lineIdx, tempChunk, chunks, tempStart, spans>>

\* lines 229-233
FinalFlush ==
  /\ pc = "paragraphs"
  /\ paraIdx = Len(paragraphs)
  /\ IF currentChunk # <<>>
       THEN /\ chunks' = chunks \o <<Trim(currentChunk)>>
            /\ spans' = spans \o <<Span(currentStart, currentChunk)>>
       ELSE UNCHANGED <<chunks, spans>>
  /\ pc' = "done"
  /\ UNCHANGED <<text, parsed, maxLength, out, tokenIdx, formatted, paragraphs,
                 paraIdx, currentChunk, lines, lineIdx, tempChunk,
                 currentStart, tempStart>>

Next ==
  \/ ReturnEmpty
  \/ CallParser
  \/ ParserThrows
  \/ RenderToken
  \/ ReturnResult
  \/ ReturnSingle
  \/ SplitParagraphs
  \/ ParagraphFlush
  \/ ParagraphAppend
  \/ LineFlush
  \/ LineAppend
  \/ LinesDone
  \/ FinalFlush

Spec == Init /\ [][Next]_vars
(***************************************************************************)
(* Properties.                                                             *)
(***************************************************************************)
Done == pc = "done"

\* the number of places where pat occurs in s
Count(s, pat) ==
  Cardinality({i \in 1..(Len(s) - Len(pat) + 1) :
                 SubSeq(s, i, i + Len(pat) - 1) = pat})

\* the characters of s that are not whitespace, in order
NonWhitespace(s) == SelectSeq(s, LAMBDA c : c \notin Whitespace)

\* the lines of the rendered markup
RenderedLines == Split(formatted, <<NL>>)

\* C1: every chunk returned by formatMarkdownChunks has length <= maxLength,
\* also when a rendered line is longer than 2 * maxLength.
C1_EveryChunkWithinMaxLength ==
  Done => \A i \in 1..Len(chunks) : Len(chunks[i]) <= maxLength

\* every opening tag of the chunk has its closing tag in the chunk
Balanced(chunk) ==
  /\ \A name \in {TagB, TagI, TagS, TagCode, TagPre, TagBlockquote} :
       Count(chunk, Tag(name)) = Count(chunk, EndTag(name))
  /\ Count(chunk, <<"<", "a", SP, "h", "r", "e", "f", "=">>)
       = Count(chunk, EndTag(TagA))

\* C2: when no rendered line exceeds maxLength (no hard slice), every chunk
\* has each opening tag matched by its closing tag inside the same chunk.
C2_ChunksKeepTagBalance ==
  (Done /\ \A i \in 1..Len(RenderedLines) : Len(RenderedLines[i]) <= maxLength)
    => \A i \in 1..Len(chunks) : Balanced(chunks[i])

\* C3: a blank input gives no chunk; any other input whose rendered markup
\* has length <= maxLength gives exactly one chunk, the trimmed rendered
\* string.
C3_BlankOrSingleTrimmedChunk ==
  Done =>
    /\ IsBlank(text) => chunks = <<>>
    /\ (~IsBlank(text) /\ Len(formatted) <= maxLength)
         => chunks = <<Trim(formatted)>>

\* C4: a rendered markup longer than maxLength gives more than one chunk.
C4_LongMarkupGivesSeveralChunks ==
  (Done /\ ~IsBlank(text) /\ Len(formatted) > maxLength) => Len(chunks) > 1

\* C5: chunking loses, duplicates and reorders nothing.  The non-whitespace
\* characters of the chunks, in order, are those of the rendered text; the
\* chunks are successive parts of the rendered text, each as it is or trimmed,
\* and what lies between them is whitespace.
C5_ChunksKeepEveryCharacter ==
  (Done /\ ~IsBlank(text)) =>
    /\ NonWhitespace(Concat(chunks)) = NonWhitespace(formatted)
    /\ Len(spans) = Len(chunks)
    /\ \A k \in 1..Len(chunks) :
         /\ 0 <= spans[k].from /\ spans[k].from <= spans[k].to
         /\ spans[k].to <= Len(formatted)
         /\ k > 1 => spans[k - 1].to <= spans[k].from
         /\ chunks[k] \in {SubSeq(formatted, spans[k].from + 1, spans[k].to),
                           Trim(SubSeq(formatted, spans[k].from + 1, spans[k].to))}
    /\ \A i \in 1..Len(formatted) :
         (\A k \in 1..Len(spans) : i <= spans[k].from \/ i > spans[k].to)
           => formatted[i] \in Whitespace

\* C5 witness: a split with a hard slice, three chunks or more, and
\* whitespace dropped at a split point
C5_Witness ==
  /\ Done
  /\ Len(chunks) >= 3
  /\ \E i \in 1..Len(RenderedLines) : Len(RenderedLines[i]) > maxLength
  /\ Len(Concat(chunks)) < Len(formatted)
  /\ C5_ChunksKeepEveryCharacter

StartsWith(s, p) == Len(s) >= Len(p) /\ SubSeq(s, 1, Len(p)) = p
EndsWith(s, p) == Len(s) >= Len(p) /\ SubSeq(s, Len(s) - Len(p) + 1, Len(s)) = p

\* the characters the dialect reserves
Reserved == {"&", "<", ">", "\""}

\* what the renderer emits with reserved characters: the four entities, the
\* tags of the dialect, and the opening tag of a link
Entities == {EscapeChar(c) : c \in Reserved}
Tags ==
  {Tag(n) : n \in {TagB, TagI, TagS, TagCode, TagPre, TagBlockquote}}
    \cup {EndTag(n) : n \in {TagB, TagI, TagS, TagCode, TagPre, TagBlockquote, TagA}}
AnchorPrefix == <<"<", "a", SP, "h", "r", "e", "f", "=", "\"">>

\* e occurs in s at position i
OccursAt(s, e, i) == i >= 1 /\ i + Len(e) - 1 <= Len(s) /\ SubSeq(s, i, i + Len(e) - 1) = e

\* the positions of s that an opening tag of a link beginning at i takes up:
\* <a href=" up to the next quote, which > follows, the value between holding
\* no < or >
AnchorPositions(s, i) ==
  LET quotes == {j \in (i + Len(AnchorPrefix))..Len(s) : s[j] = "\""}
  IN  IF ~OccursAt(s, AnchorPrefix, i) \/ quotes = {} THEN {}
      ELSE LET j == MinOf(quotes)
           IN  IF /\ OccursAt(s, <<"\"", ">">>, j)
                  /\ \A k \in (i + Len(AnchorPrefix))..(j - 1) : s[k] \notin {"<", ">"}
                 THEN (i..(i + Len(AnchorPrefix) - 1)) \cup {j, j + 1}
                 ELSE {}

\* every reserved character of s belongs to an entity, to a tag of the
\* dialect or to the opening tag of a link
OnlyEmitted(s) ==
  LET covered ==
        UNION {UNION {IF OccursAt(s, e, i) THEN i..(i + Len(e) - 1) ELSE {} :
                        e \in Entities \cup Tags}
                 \cup AnchorPositions(s, i) : i \in 1..Len(s)}
  IN  \A i \in 1..Len(s) : s[i] \in Reserved => i \in covered

\* C6: the output of markdownToTelegram holds no raw & < > " of user text:
\* each reserved character in it belongs to an entity or to a dialect tag.
C6_NoRawReservedCharacter ==
  pc = "converted" => OnlyEmitted(formatted)

\* s with each entity replaced by its character, once
Unescape(s) ==
  LET entityAt(i) == \E c \in Reserved : OccursAt(s, EscapeChar(c), i)
      charAt(i) == CHOOSE c \in Reserved : OccursAt(s, EscapeChar(c), i)
      inside(i) == \E j \in 1..(i - 1), c \in Reserved :
                     OccursAt(s, EscapeChar(c), j) /\ i < j + Len(EscapeChar(c))
  IN  Concat([i \in 1..Len(s) |->
                IF entityAt(i) THEN <<charAt(i)>>
                ELSE IF inside(i) THEN <<>>
                ELSE <<s[i]>>])

\* C7: markdownToTelegram never raises; when the parser throws it returns the
\* whole input with the reserved characters replaced by their entities (no
\* reserved character is left but the & of an entity, and the entities read
\* back give the input), and formatMarkdownChunks returns chunks for it.
C7_ParserFailureFallsBack ==
  /\ pc # "raised"
  /\ (parsed.throws /\ pc \in {"converted", "paragraphs", "lines", "done"}) =>
       /\ formatted = EscapeHtml(text)
       /\ Unescape(formatted) = text
       /\ \A i \in 1..Len(formatted) :
            formatted[i] \in Reserved
              => \E c \in Reserved : OccursAt(formatted, EscapeChar(c), i)
  /\ (parsed.throws /\ Done) => Len(chunks) >= 1

\* C7 witness: the parser threw on a text with a reserved character and the
\* call returned several chunks
C7_Witness ==
  /\ parsed.throws
  /\ Done
  /\ \E i \in 1..Len(text) : text[i] \in Reserved
  /\ Len(chunks) >= 2
  /\ C7_ParserFailureFallsBack

\* the first top-level token has just been rendered, and is of the type
Rendered(type) ==
  /\ pc = "parse"
  /\ tokenIdx = 1
  /\ parsed.tokens[1].type = type

\* C8: the line of the list item at position i (0-based) begins with exactly
\* one marker: the checked or unchecked glyph for a task item, `(start + i).`
\* for an item of an ordered list (start being 1 when not a number), the
\* bullet otherwise; no <input tag is emitted.
C8_OneMarkerPerItem ==
  Rendered("list") =>
    LET token == parsed.tokens[1]
        start == IF token.start.kind = "number" THEN token.start.num ELSE 1
        itemLines == Split(Trim(out), <<NL>>)
        marker(i) ==
          LET item == token.items[i]
          IN  IF item.task /\ item.checked THEN CheckedGlyph
              ELSE IF item.task THEN UncheckedGlyph
              ELSE IF token.ordered THEN Digits(start + i - 1) \o <<".">>
              ELSE BulletGlyph
        rest(i) == SubSeq(itemLines[i], Len(marker(i)) + 2, Len(itemLines[i]))
    IN  /\ Len(itemLines) = Len(token.items)
        /\ \A i \in 1..Len(itemLines) :
             /\ StartsWith(itemLines[i], marker(i) \o <<SP>>)
             /\ \A g \in {CheckedGlyph, UncheckedGlyph, BulletGlyph} :
                  ~StartsWith(rest(i), g)
        /\ Count(out, <<"<", "i", "n", "p", "u", "t">>) = 0

\* C9: a table of k > 0 header cells and r body rows renders as one
\* <pre>...</pre> block of r + 2 lines, the first the header row, the second
\* k separators `---`, and no tag inside; a table of no header and no rows
\* renders to the empty string.
C9_TableIsOnePreformattedBlock ==
  Rendered("table") =>
    LET token == parsed.tokens[1]
        k == Len(token.header)
        r == Len(token.rows)
        body == SubSeq(out, Len(Tag(TagPre)) + 1,
                       Len(out) - Len(EndTag(TagPre)) - 2)
        rows == Split(body, <<NL>>)
        cells(line) == Split(SubSeq(line, 3, Len(line) - 2), <<SP, "|", SP>>)
    IN  /\ (k = 0 /\ r = 0) => out = <<>>
        /\ k > 0 =>
             /\ StartsWith(out, Tag(TagPre))
             /\ EndsWith(out, EndTag(TagPre) \o <<NL, NL>>)
             /\ Len(rows) = r + 2
             /\ \A j \in 1..Len(rows) :
                  StartsWith(rows[j], <<"|", SP>>) /\ EndsWith(rows[j], <<SP, "|">>)
             /\ Len(cells(rows[1])) = k
             /\ \A c \in 1..k :
                  token.header[c].tokens = <<TextTok(<<"a">>)>>
                    => cells(rows[1])[c] = <<"a">>
             /\ cells(rows[2]) = [c \in 1..k |-> <<"-", "-", "-">>]
             /\ \A i \in 1..Len(body) : body[i] \notin {"<", ">"}

\* C9 witness: a table of two columns and two rows, with a cell in bold, and
\* the table of no header and no rows
C9_Witness ==
  /\ Rendered("table")
  /\ Len(parsed.tokens[1].header) = 2
  /\ Len(parsed.tokens[1].rows) = 2
  /\ \E c \in 1..2 : parsed.tokens[1].header[c].tokens # <<TextTok(<<"a">>)>>
  /\ C9_TableIsOnePreformattedBlock
C9_WitnessEmpty ==
  /\ Rendered("table")
  /\ parsed.tokens[1].header = <<>>
  /\ parsed.tokens[1].rows = <<>>

\* no chunk boundary falls inside the part of the rendered text at [from, to)
Undivided(from, to) ==
  \A k \in 1..Len(spans) :
    \/ spans[k].to <= from
    \/ spans[k].from >= to
    \/ (spans[k].from <= from /\ to <= spans[k].to)

\* C10: a paragraph of the rendered text of length <= maxLength is never
\* divided between two chunks; in a longer paragraph a line of length
\* <= maxLength is never divided; only a line longer than maxLength is cut
\* at a character position.  (Each chunk is the part of the rendered text at
\* its span, trimmed unless it is a slice.)
C10_SplitsAtCoarsestBoundary ==
  (Done /\ ~IsBlank(text)) =>
    LET ps == Split(formatted, <<NL, NL>>)
        pOff(i) == PartOffset(ps, 2, 0, i)
        ls(i) == Split(ps[i], <<NL>>)
        lOff(i, j) == PartOffset(ls(i), 1, pOff(i), j)
    IN  /\ Len(spans) = Len(chunks)
        /\ \A k \in 1..Len(spans) :
             LET part == SubSeq(formatted, spans[k].from + 1, spans[k].to)
             IN  chunks[k] \in {part, Trim(part)}
        /\ \A i \in 1..Len(ps) :
             IF Len(ps[i]) <= maxLength
               THEN Undivided(pOff(i), pOff(i) + Len(ps[i]))
               ELSE \A j \in 1..Len(ls(i)) :
                      Len(ls(i)[j]) <= maxLength
                        => Undivided(lOff(i, j), lOff(i, j) + Len(ls(i)[j]))

\* C10 witness: three chunks or more, from a text with a paragraph that fits,
\* a longer paragraph with a line that fits, and a line that does not
C10_Witness ==
  LET ps == Split(formatted, <<NL, NL>>)
  IN  /\ Done
      /\ Len(chunks) >= 3
      /\ \E i \in 1..Len(ps) : Len(ps[i]) >= 2 /\ Len(ps[i]) <= maxLength
      /\ \E i \in 1..Len(ps) :
           /\ Len(ps[i]) > maxLength
           /\ \E j \in 1..Len(Split(ps[i], <<NL>>)) :
                LET l == Split(ps[i], <<NL>>)[j]
                IN  Len(l) >= 2 /\ Len(l) <= maxLength
      /\ \E i \in 1..Len(RenderedLines) : Len(RenderedLines[i]) > maxLength
      /\ C10_SplitsAtCoarsestBoundary

\* ---------------------------------------------------------------------------
\* C11: no chunk returned by formatMarkdownChunks is the empty string, for
\* every input and maxLength: neither a non-blank input that renders to empty
\* markup, nor a whitespace-only paragraph or line flushed on its own and
\* trimmed, may leave "" among the chunks.
C11_NoEmptyChunk ==
  Done => \A k \in 1..Len(chunks) : chunks[k] # <<>>

\* ---------------------------------------------------------------------------
\* the literal text of inline tokens: what the user wrote, without markup
RECURSIVE LiteralText(_)
LiteralText(toks) ==
  Concat([i \in 1..Len(toks) |->
            CASE toks[i].type \in {"text", "escape", "codespan", "html", "image"}
                   -> toks[i].text
              [] toks[i].type = "br" -> <<NL>>
              [] OTHER -> LiteralText(toks[i].tokens)])

\* the literal text of a table cell, on one line
CellLiteral(cell) == Trim(NewlinesToSpace(LiteralText(cell.tokens)))

\* C12: user text is escaped exactly once wherever it appears.  For a
\* paragraph of plain text, and for every cell of a table, replacing each
\* entity of the rendered output by its character once gives back the literal
\* text: the table rule does not escape a cell's & < > or " a second time.
C12_CellTextEscapedOnce ==
  /\ ( /\ Rendered("paragraph")
       /\ \A i \in 1..Len(parsed.tokens[1].tokens) :
            parsed.tokens[1].tokens[i].type \in {"text", "escape"} )
       => Unescape(out) = LiteralText(parsed.tokens[1].tokens) \o <<NL, NL>>
  /\ (Rendered("table") /\ Len(parsed.tokens[1].header) > 0) =>
       LET token == parsed.tokens[1]
           body == SubSeq(out, Len(Tag(TagPre)) + 1,
                          Len(out) - Len(EndTag(TagPre)) - 2)
           literalRow(cells) ==
             TableRow([c \in 1..Len(cells) |-> CellLiteral(cells[c])])
           literalLines ==
             <<literalRow(token.header), SeparatorRow(token.header)>>
               \o [r \in 1..Len(token.rows) |-> literalRow(token.rows[r])]
       IN  Unescape(body) = Join(literalLines, <<NL>>)
=============================================================================
